---- MODULE Spec2Model ----
(***************************************************************************)
(* Cinema booking backend (cinema/serializers.py, cinema/views.py).        *)
(*                                                                         *)
(* The database holds cinema halls, movie sessions, orders and tickets.    *)
(* POST /orders/ is modelled statement by statement: every ticket of the   *)
(* body is validated by TicketSerializer.validate (one database read per   *)
(* ticket, outside any transaction), then OrderSerializer.create opens     *)
(* transaction.atomic(), inserts the Order row, inserts one Ticket row per *)
(* validated ticket and commits.  Rows written inside the transaction are  *)
(* invisible to other requests until the commit.                           *)
(***************************************************************************)
EXTENDS Integers, Sequences, FiniteSets, TLC

\* ------------------------------------------------------------------ bounds
MaxRows  == 1       \* largest CinemaHall.rows drawn
MaxSeats == 2       \* largest CinemaHall.seats_in_row drawn
MaxBatch == 2       \* longest "tickets" list of a request body

HallIds  == {1, 2}
SessIds  == {1, 2}
Reqs     == {1, 2}              \* concurrent POST /orders/ requests
Users    == {"alice", "bob"}
Movies   == {"m1", "m2"}
Dates    == {"d1", "d2"}
NoValue  == "none"              \* an absent query parameter / body field

Unborn   == [state |-> "unborn"]    \* primary key not handed out yet
Deleted  == [state |-> "deleted"]   \* row deleted, key never reused

VARIABLES
    halls,      \* CinemaHall table: HallIds -> Unborn | Deleted | live row
    sessions,   \* MovieSession table: SessIds -> Unborn | Deleted | live row
    orders,     \* committed Order rows
    tickets,    \* committed Ticket rows
    req         \* per request: position, principal, body, transaction

vars == <<halls, sessions, orders, tickets, req>>

\* ------------------------------------------------------------------ data
HallRow(r, s) == [state |-> "live", rows |-> r, seats_in_row |-> s]
Geometries == {HallRow(r, s) : r \in 1..MaxRows, s \in 1..MaxSeats}

SessionRow(h, m, d) ==
    [state |-> "live", cinema_hall |-> h, movie |-> m, show_date |-> d]

Live(row) == row.state = "live"

\* one element of the "tickets" list of a request body
TicketReqs ==
    [movie_session : SessIds, row : 0..(MaxRows + 1), seat : 0..(MaxSeats + 1)]

RECURSIVE SeqsUpTo(_, _)
SeqsUpTo(S, n) ==
    IF n = 0 THEN {<<>>}
    ELSE LET shorter == SeqsUpTo(S, n - 1)
         IN  shorter \cup {Append(q, x) : q \in {p \in shorter : Len(p) = n - 1}, x \in S}

\* request bodies: a tickets list of at most n elements of T, and a "user"
\* field a client may send along (NoValue: not sent)
BodiesOver(T, n, U) == [tickets : SeqsUpTo(T, n), user : U]

\* tickets of the booking runs: in session 1 every seat of row 1 and the seat
\* one past the row's end, in session 2 the first seat
BookingTickets ==
    [movie_session : {1}, row : {1}, seat : 1..(MaxSeats + 1)]
        \cup [movie_session : SessIds \ {1}, row : {1}, seat : {1}]

BookingBodies == BodiesOver(BookingTickets, MaxBatch, {NoValue})

\* bodies of the validation runs: one ticket, any session, row and seat from
\* one below to one past the largest hall
ValidateBodies ==
    {b \in BodiesOver(TicketReqs, 1, {NoValue}) : Len(b.tickets) = 1}

\* bodies of the venue runs: one ticket for a seat of the largest hall
VenueBodies ==
    {b \in BodiesOver([movie_session : SessIds, row : 1..MaxRows, seat : 1..MaxSeats],
                      1, {NoValue}) : Len(b.tickets) = 1}

\* bodies of the ownership runs: one seat per session, any "user" field
OwnerBodies ==
    BodiesOver([movie_session : SessIds, row : {1}, seat : {1}],
               1, Users \cup {NoValue})

MovieOf(s) == IF s = 1 THEN "m1" ELSE "m2"
DateOf(s)  == IF s = 1 THEN "d1" ELSE "d2"

IdleReq ==
    [pc |-> "idle", user |-> NoValue, tickets |-> <<>>, body_user |-> NoValue,
     errs |-> <<>>, pending |-> {}, outcome |-> "none"]


\* ------------------------------------------------------------ validation
\* TicketSerializer.validate, first check: 1 <= row <= cinema_hall.rows
RowInRange(row, hall) == 1 <= row /\ row <= hall.rows

\* TicketSerializer.validate, second check: 1 <= seat <= seats_in_row
SeatInRange(seat, hall) == 1 <= seat /\ seat <= hall.seats_in_row

\* variant: the lookup filters on row and seat only
SeatTakenAnySession(attrs, stored) ==
    \E t \in stored : t.row = attrs.row /\ t.seat = attrs.seat

\* Ticket.objects.filter(movie_session=..., row=..., seat=...).exists(),
\* evaluated on the committed rows
SeatTaken(attrs, stored) ==
    \E t \in stored :
        /\ t.movie_session = attrs.movie_session
        /\ t.row = attrs.row
        /\ t.seat = attrs.seat

\* variant: the conflict check runs before the range checks
ValidateConflictFirst(attrs, hallTable, sessionTable, stored) ==
    LET movie_session == sessionTable[attrs.movie_session]
        hall == hallTable[movie_session.cinema_hall]
    IN  IF SeatTaken(attrs, stored) THEN "taken"
        ELSE IF ~RowInRange(attrs.row, hall) THEN "row"
        ELSE IF ~SeatInRange(attrs.seat, hall) THEN "seat"
        ELSE "ok"

\* TicketSerializer.validate: the error it raises, or "ok"
Validate(attrs, hallTable, sessionTable, stored) ==
    LET movie_session == sessionTable[attrs.movie_session]
        hall == hallTable[movie_session.cinema_hall]
    IN  IF ~RowInRange(attrs.row, hall) THEN "row"
        ELSE IF ~SeatInRange(attrs.seat, hall) THEN "seat"
        ELSE IF SeatTaken(attrs, stored) THEN "taken"
        ELSE "ok"

\* The movie_session field is a primary-key related field: a key that names
\* no row is rejected before validate() runs.
RunValidation(attrs, hallTable, sessionTable, stored) ==
    IF ~Live(sessionTable[attrs.movie_session]) THEN "does_not_exist"
    ELSE Validate(attrs, hallTable, sessionTable, stored)

\* variant: only the first element decides
ListValidFirstOnly(errs) == errs # <<>> /\ errs[1] = "ok"

\* tickets = TicketSerializer(many=True, allow_empty=False): the list is valid
\* when it is not empty and every element validated
ListValid(errs) ==
    /\ errs # <<>>
    /\ \A i \in 1..Len(errs) : errs[i] = "ok"

\* ---------------------------------------------------------------- storage
\* variant: no uniqueness constraint declared
NoUniqueViolation(t, rows) == FALSE

\* Storage-level uniqueness of (movie_session, row, seat) on Ticket.
UniqueViolation(t, rows) ==
    \E u \in rows :
        /\ u.id # t.id
        /\ u.movie_session = t.movie_session
        /\ u.row = t.row
        /\ u.seat = t.seat

\* Rows another open transaction has written but not committed.
PendingOfOthers(r) == UNION {req[q].pending : q \in Reqs \ {r}}

\* variant: "user" is a writable serializer field, the body's value wins
SaveUserFromBody(r) ==
    IF req[r].body_user # NoValue THEN req[r].body_user ELSE req[r].user

\* Meta.fields = ["id", "tickets", "created_at"]: "user" is no serializer
\* field, so validated_data carries only what perform_create passes to save().
SaveUser(r) == req[r].user

\* Order.objects.create(**validated_data)
OrderRow(r) == [id |-> r, user |-> SaveUser(r)]

\* Ticket.objects.create(order=order, **ticket_data) for the i-th ticket
TicketRow(r, i) ==
    [id |-> <<r, i>>, order |-> r,
     movie_session |-> req[r].tickets[i].movie_session,
     row |-> req[r].tickets[i].row,
     seat |-> req[r].tickets[i].seat]

\* variant: no transaction, every insert is committed as it is made
AutocommitExit(order, pending) == [orders |-> {order}, tickets |-> pending]

\* with transaction.atomic(): the rows of the block that reach the tables
\* when the block raises
AtomicExit(order, pending) == [orders |-> {}, tickets |-> {}]

\* the response: 201 "created", 400 "invalid" with the collected errors, or an
\* exception nothing handles ("IntegrityError", "OperationalError")
Respond(r, outcome) ==
    [req[r] EXCEPT !.pc = "done", !.pending = {}, !.outcome = outcome]

\* an exception leaves create(): the block is rolled back, the request faults
Raise(r, exception) ==
    /\ orders' = orders \cup AtomicExit(OrderRow(r), req[r].pending).orders
    /\ tickets' = tickets \cup AtomicExit(OrderRow(r), req[r].pending).tickets
    /\ req' = [req EXCEPT ![r] = Respond(r, exception)]

\* ------------------------------------------------------- POST /orders/
\* An authenticated user posts a body.
StartRequest(r, u, body) ==
    /\ req[r].pc = "idle"
    /\ req' = [req EXCEPT ![r] =
                 [pc |-> "validating", user |-> u, tickets |-> body.tickets,
                  body_user |-> body.user, errs |-> <<>>, pending |-> {},
                  outcome |-> "none"]]
    /\ UNCHANGED <<halls, sessions, orders, tickets>>

\* is_valid(): the next ticket of the list is validated against committed rows
ValidateTicket(r) ==
    /\ req[r].pc = "validating"
    /\ Len(req[r].errs) < Len(req[r].tickets)
    /\ LET attrs == req[r].tickets[Len(req[r].errs) + 1]
       IN  req' = [req EXCEPT ![r].errs =
                     Append(@, RunValidation(attrs, halls, sessions, tickets))]
    /\ UNCHANGED <<halls, sessions, orders, tickets>>

\* is_valid(raise_exception=True) fails: 400 with the collected errors
RejectInvalid(r) ==
    /\ req[r].pc = "validating"
    /\ Len(req[r].errs) = Len(req[r].tickets)
    /\ ~ListValid(req[r].errs)
    /\ req' = [req EXCEPT ![r] = Respond(r, "invalid")]
    /\ UNCHANGED <<halls, sessions, orders, tickets>>

\* perform_create -> save(user=request.user) -> create(): the transaction
\* opens and the Order row is inserted
BeginCreate(r) ==
    /\ req[r].pc = "validating"
    /\ Len(req[r].errs) = Len(req[r].tickets)
    /\ ListValid(req[r].errs)
    /\ req' = [req EXCEPT ![r].pc = "creating"]
    /\ UNCHANGED <<halls, sessions, orders, tickets>>

\* the insert of the next Ticket row waits while another open transaction
\* holds an uncommitted row with the same key
Blocked(r) ==
    /\ req[r].pc = "creating"
    /\ Cardinality(req[r].pending) < Len(req[r].tickets)
    /\ UniqueViolation(TicketRow(r, Cardinality(req[r].pending) + 1),
                       PendingOfOthers(r))

\* for ticket_data in tickets_data: Ticket.objects.create(...)
\* A uniqueness violation raises IntegrityError out of create(); nothing
\* catches it, the atomic block rolls back and the request ends as a fault.
InsertTicket(r) ==
    /\ req[r].pc = "creating"
    /\ Cardinality(req[r].pending) < Len(req[r].tickets)
    /\ ~Blocked(r)
    /\ LET t == TicketRow(r, Cardinality(req[r].pending) + 1)
       IN  IF UniqueViolation(t, tickets \cup req[r].pending)
           THEN Raise(r, "IntegrityError")
           ELSE /\ req' = [req EXCEPT ![r].pending = @ \cup {t}]
                /\ UNCHANGED <<orders, tickets>>
    /\ UNCHANGED <<halls, sessions>>

\* request r waits for a row that the open transaction of q holds
WaitsFor(r, q) ==
    /\ Blocked(r)
    /\ UniqueViolation(TicketRow(r, Cardinality(req[r].pending) + 1), req[q].pending)

\* two transactions wait for each other: the database picks one of them as
\* the deadlock victim, its insert raises OperationalError and its atomic
\* block rolls back
DeadlockAbort(r) ==
    /\ \E q \in Reqs \ {r} : WaitsFor(r, q) /\ WaitsFor(q, r)
    /\ Raise(r, "OperationalError")
    /\ UNCHANGED <<halls, sessions>>

\* leaving transaction.atomic(): commit.  The foreign key of a ticket whose
\* session was deleted meanwhile fails the commit.
Commit(r) ==
    /\ req[r].pc = "creating"
    /\ Cardinality(req[r].pending) = Len(req[r].tickets)
    /\ IF \A t \in req[r].pending : Live(sessions[t.movie_session])
       THEN /\ orders' = orders \cup {OrderRow(r)}
            /\ tickets' = tickets \cup req[r].pending
            /\ req' = [req EXCEPT ![r] = Respond(r, "created")]
       ELSE Raise(r, "IntegrityError")
    /\ UNCHANGED <<halls, sessions>>

\* ------------------------------------------------------------ read side
\* MovieSessionViewSet.get_queryset for "list": the annotated, filtered rows
\* Count("tickets"): the session's rows of the LEFT OUTER JOIN with Ticket,
\* counting those that carry a ticket
NoTicket == [id |-> NoValue]
JoinedRows(s) ==
    IF \E t \in tickets : t.movie_session = s
    THEN {t \in tickets : t.movie_session = s}
    ELSE {NoTicket}
\* variant: COUNT(*) over the joined rows
CountJoinedRows(s) == Cardinality(JoinedRows(s))

CountTickets(s) == Cardinality({j \in JoinedRows(s) : j.id # NoValue})

\* F("cinema_hall__rows") * F("cinema_hall__seats_in_row") - Count("tickets")
TicketsAvailable(s) ==
    LET hall == halls[sessions[s].cinema_hall]
    IN  hall.rows * hall.seats_in_row - CountTickets(s)

MovieSessionList(date, movie) ==
    {[id |-> s, tickets_available |-> TicketsAvailable(s)] :
        s \in {x \in SessIds :
                 /\ Live(sessions[x])
                 /\ (date # NoValue => sessions[x].show_date = date)
                 /\ (movie # NoValue => sessions[x].movie = movie)}}

\* OrderViewSet.get_queryset: filter(user=self.request.user)
OrderQueryset(u) == {o \in orders : o.user = u}

\* GET /orders/ and GET /orders/<id>/ as user u
OrderList(u) == OrderQueryset(u)
OrderRetrieve(u, id) == {o \in OrderQueryset(u) : o.id = id}

\* ------------------------------------------------------- venue CRUD
\* primary keys are handed out in increasing order and never reused
NextKey(table, ids) ==
    CHOOSE k \in ids : table[k] = Unborn /\ \A j \in ids : j < k => table[j] # Unborn

\* CinemaHallViewSet (ModelViewSet): create
CreateHall(geom) ==
    /\ \E k \in HallIds : halls[k] = Unborn
    /\ halls' = [halls EXCEPT ![NextKey(halls, HallIds)] = geom]
    /\ UNCHANGED <<sessions, orders, tickets, req>>

\* CinemaHallViewSet: update / partial_update; the serializer writes rows and
\* seats_in_row with no look at the tickets sold
UpdateHall(h, geom) ==
    /\ Live(halls[h])
    /\ halls' = [halls EXCEPT ![h] = geom]
    /\ UNCHANGED <<sessions, orders, tickets, req>>

\* CinemaHallViewSet: destroy; sessions of the hall and their tickets cascade
DeleteHall(h) ==
    /\ Live(halls[h])
    /\ halls' = [halls EXCEPT ![h] = Deleted]
    /\ sessions' = [s \in SessIds |->
                      IF Live(sessions[s]) /\ sessions[s].cinema_hall = h
                      THEN Deleted ELSE sessions[s]]
    /\ tickets' = {t \in tickets : sessions[t.movie_session].cinema_hall # h}
    /\ UNCHANGED <<orders, req>>

\* MovieSessionViewSet (ModelViewSet): create
CreateSession(h) ==
    /\ \E k \in SessIds : sessions[k] = Unborn
    /\ Live(halls[h])
    /\ LET k == NextKey(sessions, SessIds)
       IN  sessions' = [sessions EXCEPT ![k] = SessionRow(h, MovieOf(k), DateOf(k))]
    /\ UNCHANGED <<halls, orders, tickets, req>>

\* MovieSessionViewSet: update; MovieSessionSerializer writes cinema_hall
UpdateSession(s, h) ==
    /\ Live(sessions[s])
    /\ Live(halls[h])
    /\ sessions' = [sessions EXCEPT ![s].cinema_hall = h]
    /\ UNCHANGED <<halls, orders, tickets, req>>

\* MovieSessionViewSet: destroy; the session's tickets cascade
DeleteSession(s) ==
    /\ Live(sessions[s])
    /\ sessions' = [sessions EXCEPT ![s] = Deleted]
    /\ tickets' = {t \in tickets : t.movie_session # s}
    /\ UNCHANGED <<halls, orders, req>>

\* OrderViewSet: destroy; get_object() looks the order up in get_queryset(),
\* so only an order of the requesting user is found; its tickets cascade
DeleteOrder(u, o) ==
    /\ o \in OrderQueryset(u)
    /\ orders' = orders \ {o}
    /\ tickets' = {t \in tickets : t.order # o.id}
    /\ UNCHANGED <<halls, sessions, req>>

\* ------------------------------------------------------------------ spec
NoOpenRequest == \A q \in Reqs : req[q].pc \in {"idle", "done"}

\* a venue with both halls at full size and one session in each hall
Init ==
    /\ halls = [h \in HallIds |-> HallRow(MaxRows, MaxSeats)]
    /\ sessions = [s \in SessIds |-> SessionRow(s, MovieOf(s), DateOf(s))]
    /\ orders = {}
    /\ tickets = {}
    /\ req = [r \in Reqs |-> IdleReq]

\* stored tickets of earlier orders: any set of at most two seats of the
\* largest hall, no seat sold twice; the halls may have been resized since
EarlierTickets ==
    LET keys == [movie_session : SessIds, row : 1..MaxRows, seat : 1..MaxSeats]
        row(k, i) == [id |-> <<0, i>>, order |-> 0, movie_session |-> k.movie_session,
                      row |-> k.row, seat |-> k.seat]
    IN  {{}} \cup {{row(k, 1)} : k \in keys}
             \cup {{row(p[1], 1), row(p[2], 2)} :
                      p \in {q \in keys \X keys : q[1] # q[2]}}

InitValidate ==
    /\ halls \in [HallIds -> Geometries]
    /\ sessions = [s \in SessIds |-> SessionRow(s, MovieOf(s), DateOf(s))]
    /\ tickets \in EarlierTickets
    /\ orders = IF tickets = {} THEN {} ELSE {[id |-> 0, user |-> "alice"]}
    /\ req = [r \in Reqs |-> IdleReq]

\* the empty database
InitVenue ==
    /\ halls = [h \in HallIds |-> Unborn]
    /\ sessions = [s \in SessIds |-> Unborn]
    /\ orders = {}
    /\ tickets = {}
    /\ req = [r \in Reqs |-> IdleReq]

UserOf(r) == IF r = 1 THEN "alice" ELSE "bob"

\* concurrent order requests on a fixed venue
Next ==
    \/ \E r \in Reqs, body \in BookingBodies : StartRequest(r, UserOf(r), body)
    \/ \E r \in Reqs : ValidateTicket(r)
    \/ \E r \in Reqs : RejectInvalid(r)
    \/ \E r \in Reqs : BeginCreate(r)
    \/ \E r \in Reqs : InsertTicket(r)
    \/ \E r \in Reqs : DeadlockAbort(r)
    \/ \E r \in Reqs : Commit(r)

Spec == Init /\ [][Next]_vars

\* one order request of one ticket against a database of earlier orders
NextValidate ==
    \/ \E body \in ValidateBodies : StartRequest(1, UserOf(1), body)
    \/ ValidateTicket(1)
    \/ RejectInvalid(1)
    \/ BeginCreate(1)
    \/ InsertTicket(1)
    \/ Commit(1)

SpecValidate == InitValidate /\ [][NextValidate]_vars

\* one order request at a time, interleaved with hall and session CRUD
NextVenue ==
    \/ \E r \in Reqs, body \in VenueBodies :
          NoOpenRequest /\ StartRequest(r, UserOf(r), body)
    \/ \E r \in Reqs : ValidateTicket(r)
    \/ \E r \in Reqs : RejectInvalid(r)
    \/ \E r \in Reqs : BeginCreate(r)
    \/ \E r \in Reqs : InsertTicket(r)
    \/ \E r \in Reqs : Commit(r)
    \/ \E geom \in Geometries : CreateHall(geom)
    \/ \E h \in HallIds, geom \in Geometries : UpdateHall(h, geom)
    \/ \E h \in HallIds : DeleteHall(h)
    \/ \E h \in HallIds : CreateSession(h)
    \/ \E s \in SessIds, h \in HallIds : UpdateSession(s, h)
    \/ \E s \in SessIds : DeleteSession(s)

SpecVenue == InitVenue /\ [][NextVenue]_vars

\* concurrent order requests of any user, with any "user" field in the body
\* (requests of one ticket cannot wait for each other, so no deadlock victim)
NextOwner ==
    \/ \E r \in Reqs, u \in Users, body \in OwnerBodies : StartRequest(r, u, body)
    \/ \E r \in Reqs : ValidateTicket(r)
    \/ \E r \in Reqs : RejectInvalid(r)
    \/ \E r \in Reqs : BeginCreate(r)
    \/ \E r \in Reqs : InsertTicket(r)
    \/ \E r \in Reqs : Commit(r)
    \/ \E u \in Users, o \in orders : DeleteOrder(u, o)

SpecOwner == Init /\ [][NextOwner]_vars


\* ================================================================ claims
SameSeat(a, b) ==
    a.movie_session = b.movie_session /\ a.row = b.row /\ a.seat = b.seat

Done(r) == req[r].pc = "done"
RowsOfRequest(r) ==
    [orders |-> {o \in orders : o.id = r}, tickets |-> {t \in tickets : t.order = r}]
NothingPersisted(r) == RowsOfRequest(r) = [orders |-> {}, tickets |-> {}]
AsksTwice(r) ==
    \E i, j \in 1..Len(req[r].tickets) :
        i < j /\ SameSeat(req[r].tickets[i], req[r].tickets[j])
HallOf(s) == halls[sessions[s].cinema_hall]
FitsHall(a) ==
    /\ 1 <= a.row /\ a.row <= HallOf(a.movie_session).rows
    /\ 1 <= a.seat /\ a.seat <= HallOf(a.movie_session).seats_in_row

\* C1: in every reachable state no two persisted Tickets share the same
\* (movie_session, row, seat), whatever the interleaving of the order requests.
C1_SeatUnique ==
    \A t, u \in tickets : SameSeat(t, u) => t.id = u.id

\* two requests passed the pre-check for one seat; one was created, the insert
\* of the other hit the constraint
C1_Witness ==
    \E r, q \in Reqs :
        /\ r # q
        /\ req[r].outcome = "created"
        /\ req[q].outcome = "IntegrityError"
        /\ ListValid(req[q].errs)
        /\ \E i \in 1..Len(req[r].tickets), j \in 1..Len(req[q].tickets) :
              SameSeat(req[r].tickets[i], req[q].tickets[j])

\* C2: two requests for the identical free seat: exactly one is created and
\* the other fails with the conflict error ("taken"), for every interleaving.
C2_OneCreatedOtherConflict ==
    \A r, q \in Reqs :
        ( /\ r # q
          /\ Done(r) /\ Done(q)
          /\ Len(req[r].tickets) = 1
          /\ req[r].tickets = req[q].tickets
          /\ FitsHall(req[r].tickets[1]) )
        => \E w \in {r, q} :
              /\ req[w].outcome = "created"
              /\ \A l \in {r, q} \ {w} :
                    req[l].outcome = "invalid" /\ req[l].errs = <<"taken">>

\* C3: an order request that is given no ticket, or one ticket of which fails
\* validation, or whose insert phase fails, fails as a whole and leaves no
\* Order row and no Ticket row; rows appear only with the successful commit,
\* and then all of them.
C3_AllOrNothing ==
    \A r \in Reqs :
        /\ ( Done(r) /\ ( \/ req[r].tickets = <<>>
                          \/ \E i \in 1..Len(req[r].errs) : req[r].errs[i] # "ok" ) )
              => req[r].outcome = "invalid"
        /\ req[r].outcome # "created" => NothingPersisted(r)
        /\ req[r].outcome = "created" =>
              /\ Cardinality(RowsOfRequest(r).orders) = 1
              /\ Cardinality(RowsOfRequest(r).tickets) = Len(req[r].tickets)

\* a request with a valid and an invalid ticket was rejected, another one
\* failed in its insert phase, and neither left a row
C3_Witness ==
    \E r, q \in Reqs :
        /\ req[r].outcome = "invalid" /\ Len(req[r].errs) = 2
        /\ req[r].errs[1] = "ok" /\ req[r].errs[2] # "ok"
        /\ req[q].outcome = "IntegrityError" /\ req[q].pending = {}
        /\ orders = {} /\ tickets = {}

\* C5: every entry of the movie-session list, under any date and movie
\* filter, has tickets_available = rows * seats_in_row of the hall minus the
\* number of persisted tickets of the session; a created order with k tickets
\* of a session lowers the session's value by exactly k, a failed order
\* request leaves every value unchanged.
C5_Listed(s) == CHOOSE e \in MovieSessionList(NoValue, NoValue) : e.id = s
C5_Asked(r, s) ==
    Cardinality({i \in 1..Len(req[r].tickets) : req[r].tickets[i].movie_session = s})
C5_ListValues ==
    \A d \in Dates \cup {NoValue}, m \in Movies \cup {NoValue} :
        \A e \in MovieSessionList(d, m) :
            e.tickets_available =
                HallOf(e.id).rows * HallOf(e.id).seats_in_row
                    - Cardinality({t \in tickets : t.movie_session = e.id})
C5_OrderStep ==
    \A r \in Reqs :
        (~Done(r) /\ Done(r)') =>
            \A s \in SessIds :
                C5_Listed(s).tickets_available' =
                    C5_Listed(s).tickets_available
                        - (IF req'[r].outcome = "created" THEN C5_Asked(r, s) ELSE 0)
C5_TicketsAvailable == [](C5_ListValues) /\ [][C5_OrderStep]_vars

\* an order of two tickets of session 1 was created, a later request for one
\* of its seats was refused, and the list shows two seats less
C5_Witness ==
    \E r, q \in Reqs :
        /\ req[r].outcome = "created" /\ C5_Asked(r, 1) = 2
        /\ req[q].outcome = "invalid" /\ req[q].errs = <<"taken">>
        /\ C5_Listed(1).tickets_available = MaxRows * MaxSeats - 2
        /\ MovieSessionList("d1", "m2") = {}
        /\ Cardinality(MovieSessionList("d2", NoValue)) = 1

\* C8: a request that passed validation and whose insert then violates the
\* uniqueness of (movie_session, row, seat), because another request
\* committed the seat first, is answered with the conflict error of the
\* pre-check and never with an unhandled fault.
C8_HitsCommittedSeat(r) ==
    /\ req[r].pc = "creating"
    /\ Cardinality(req[r].pending) < Len(req[r].tickets)
    /\ \E t \in tickets :
          /\ t.order # r
          /\ SameSeat(t, req[r].tickets[Cardinality(req[r].pending) + 1])
C8_ViolationIsConflictError ==
    [][\A r \in Reqs :
          (C8_HitsCommittedSeat(r) /\ Done(r)') =>
              (req'[r].outcome = "invalid" /\ \E i \in 1..Len(req'[r].errs) :
                                                  req'[r].errs[i] = "taken")]_vars

\* C10: a request that names the same free seat twice is not created with two
\* tickets of that seat: it is rejected and leaves no Order and no Ticket.
C10_SameSeatTwiceRejected ==
    \A r \in Reqs :
        (Done(r) /\ AsksTwice(r)) =>
            req[r].outcome # "created" /\ NothingPersisted(r)

\* both copies of the seat passed validation, the second insert failed
C10_Witness ==
    \E r \in Reqs :
        /\ Done(r) /\ AsksTwice(r)
        /\ req[r].errs = <<"ok", "ok">>
        /\ req[r].outcome = "IntegrityError"
        /\ tickets = {}


\* the validation step of request r: the ticket it checks and the verdict
IsValidateStep(r) ==
    req[r].pc = "validating" /\ Len(req'[r].errs) = Len(req[r].errs) + 1
Checked(r) == req[r].tickets[Len(req[r].errs) + 1]
Verdict(r) == req'[r].errs[Len(req'[r].errs)]
Occupied(a) == \E t \in tickets : SameSeat(t, a)

\* C4: for a session whose hall has R rows and S seats per row, validation of
\* (row r, seat s) succeeds if and only if 1 <= r <= R, 1 <= s <= S and no
\* persisted ticket has (movie_session, r, s); otherwise it fails with a
\* validation error.
C4_ValidateIff ==
    [][\A r \in Reqs :
          (IsValidateStep(r) /\ Live(sessions[Checked(r).movie_session])) =>
              /\ (Verdict(r) = "ok") <=> (FitsHall(Checked(r)) /\ ~Occupied(Checked(r)))
              /\ Verdict(r) \in {"ok", "row", "seat", "taken"}]_vars

\* a seat was accepted although the same row and seat is sold in the other
\* session, and with it both rows are stored
C4_Witness ==
    /\ req[1].outcome = "created"
    /\ \E t, u \in tickets :
          /\ t.order = 1 /\ u.order # 1
          /\ t.row = u.row /\ t.seat = u.seat
          /\ t.movie_session # u.movie_session

\* C9: a row out of range is reported as the range error on "row", an
\* in-range row with an out-of-range seat as the range error on "seat", and
\* the conflict error only when row and seat both lie in the hall, whatever
\* tickets are stored.
C9_RangeBeforeConflict ==
    [][\A r \in Reqs :
          (IsValidateStep(r) /\ Live(sessions[Checked(r).movie_session])) =>
              LET a == Checked(r)
                  rowOk == 1 <= a.row /\ a.row <= HallOf(a.movie_session).rows
                  seatOk == 1 <= a.seat /\ a.seat <= HallOf(a.movie_session).seats_in_row
              IN  /\ ~rowOk => Verdict(r) = "row"
                  /\ (rowOk /\ ~seatOk) => Verdict(r) = "seat"
                  /\ Verdict(r) = "taken" => (rowOk /\ seatOk)]_vars

\* a stored ticket lies outside the resized hall, and a request for its seat
\* got the range error
C9_Witness ==
    /\ req[1].outcome = "invalid"
    /\ req[1].errs \in {<<"row">>, <<"seat">>}
    /\ Occupied(req[1].tickets[1])

\* C6: every created Order is owned by the user who sent the request, never
\* by a user named in the body, and the list and retrieve of a user return
\* only orders that this user's requests created.
C6_OrdersIsolated ==
    /\ \A o \in orders : o.user = req[o.id].user
    /\ \A u \in Users :
          /\ \A o \in OrderList(u) : req[o.id].user = u
          /\ \A id \in Reqs : \A o \in OrderRetrieve(u, id) : req[o.id].user = u
    /\ \A a, b \in Users :
          a # b => \A r \in Reqs :
                      (req[r].outcome = "created" /\ req[r].user = b) =>
                          OrderRetrieve(a, r) = {}

\* both users own an order; one request named the other user in its body
C6_Witness ==
    \E r, q \in Reqs :
        /\ req[r].outcome = "created" /\ req[q].outcome = "created"
        /\ req[r].user # req[q].user
        /\ req[r].body_user = req[q].user
        /\ OrderList(req[r].user) # {} /\ OrderList(req[q].user) # {}

\* C7: in every reachable state every persisted Ticket has 1 <= row <= rows
\* and 1 <= seat <= seats_in_row of the hall of its session, also after halls
\* and sessions were created, updated or deleted.
C7_TicketsFitHall ==
    \A t \in tickets : Live(sessions[t.movie_session]) /\ FitsHall(t)

====
